---- MODULE Spec2Model ----
(***************************************************************************)
(* Model of the annotation editor in src/src/components/Canvas.jsx: the    *)
(* React state of the Canvas component, its event handlers, the auto-save  *)
(* effect with its timer, and the requests in flight to the persistence    *)
(* service.  Every handler runs to completion on the event loop, so each   *)
(* handler (with the re-render and the effects it causes) is one action.   *)
(*                                                                         *)
(* Numbers are integers.  Time is counted in milliseconds and advances in  *)
(* steps of TickMs.  A scale factor is a pair <<num, den>>.                *)
(***************************************************************************)
EXTENDS Integers, Sequences, FiniteSets, TLC

VARIABLES
    rectangles,    \* useState([])     the rectangle sequence
    selectedId,    \* useState(null)   Null or a rectangle id
    isDrawing,     \* useState(false)
    startPoint,    \* useState(null)   <<>> or <<point>>
    currentRect,   \* useState(null)   <<>> or <<rect>>, the provisional rectangle
    loading,       \* useState(true)
    error,         \* useState('')
    annotationId,  \* useState(null)   Null or the id given by the service
    autoSave,      \* useState(false)
    timer,         \* the setTimeout of the auto-save effect and the closure it holds
    inflight,      \* save requests issued and not yet answered
    serverNext,    \* the next _id the service gives to a created set
    now,           \* Date.now(), strictly increasing from one pointer-down to the next
    node,          \* the Konva node of the selected rectangle during a resize gesture
    reader,        \* the FileReader of an import: <<>> or <<what the file parses to>>
    download,      \* the text of the file the last export handed to the browser
    endPoint,      \* history: the last pointer position a tracked pointer-move used
    quiet,         \* history: milliseconds since the last setRectangles (capped)
    fired,         \* history: auto-save timer firings since the effect last ran
    cancelled      \* history: the effect's last run cleared a timer that was pending

vars == <<rectangles, selectedId, isDrawing, startPoint, currentRect, loading, error,
          annotationId, autoSave, timer, inflight, serverNext, now, node,
          reader, download, endPoint, quiet, fired, cancelled>>

----------------------------------------------------------------------------
(* Bounds of the model *)

MaxRects == 2      \* a gesture starts only while the store holds fewer rectangles
MaxNow == 2        \* pointer-downs in one run (values Date.now() takes)
MaxInflight == 1   \* save requests in flight at once
MaxRacing == 2     \* save requests in flight at once in the runs that follow their race
MaxSize == 12      \* a resize gesture is followed while the box is at most this big
TickMs == 1000     \* milliseconds per clock step

(* Constants of the program *)

Null == 0                \* null: no selection, no annotation id
Threshold == 5           \* handleMouseUp: Math.abs(...) > 5
MinSize == 5             \* handleTransformEnd: Math.max(5, ...)
MinBox == 5              \* boundBoxFunc: newBox.width < 5
AutoSaveDelay == 2000    \* setTimeout(..., 2000)

(* Inputs *)

Pt(px, py) == [x |-> px, y |-> py]

Rect(i, px, py, w, h, c) ==
    [id |-> i, x |-> px, y |-> py, width |-> w, height |-> h, color |-> c]

\* pointer positions on the stage
Points == {Pt(0, 0), Pt(5, 5), Pt(6, 6), Pt(14, 0)}

\* positions a node is dropped at (drag end, resize end)
NodePositions == {Pt(3, 4)}

\* scale factors <<num, den>>, and the pairs <<scaleX, scaleY>> a resize handle tries
Scales == {<<-1, 1>>, <<0, 1>>, <<1, 2>>, <<1, 1>>, <<2, 1>>}
ScalePairs == {<<<<2, 1>>, <<1, 1>>>>, <<<<1, 2>>, <<1, 1>>>>,
               <<<<1, 1>>, <<0, 1>>>>, <<<<-1, 1>>, <<2, 1>>>>}

\* the colours Math.random() picks
Colors == {"#a1b2c3"}

\* records a file may hold: a regular one and one below the minimum size
Regular == Rect(101, 1, 1, 8, 6, "#111111")
Small == Rect(102, 2, 2, 3, 8, "#222222")

\* what JSON.parse makes of an uploaded file: it throws, or it returns a value
Documents == {[kind |-> "invalid", value |-> <<>>],
              [kind |-> "object", value |-> <<>>],
              [kind |-> "null", value |-> <<>>],
              [kind |-> "array", value |-> <<>>],
              [kind |-> "array", value |-> <<Regular>>],
              [kind |-> "array", value |-> <<Regular, Small>>]}

\* a record that lacks width, height and color, and the files of the runs that follow
\* import and export
Malformed == [id |-> 103, x |-> 3, y |-> 3]
FileDocuments == Documents \cup {[kind |-> "array", value |-> <<Malformed>>],
                                 [kind |-> "array", value |-> <<Regular, Malformed>>]}

\* an id no rectangle of the inputs has
StaleId == 999

\* what GET /api/annotations answers: a list of {_id, rectangles}
ServerLists == {<<>>,
                <<[_id |-> 1, rectangles |-> <<Regular>>]>>,
                <<[_id |-> 1, rectangles |-> <<>>],
                  [_id |-> 2, rectangles |-> <<Regular>>]>>}

\* the inputs of the runs that follow saving: one gesture, one file, one saved set
SyncDown == Pt(0, 0)
SyncMove == Pt(6, 6)
SyncDocument == [kind |-> "array", value |-> <<Regular>>]
SyncLists == {<<>>, <<[_id |-> 1, rectangles |-> <<Regular>>]>>}

----------------------------------------------------------------------------
(* Helpers *)

Abs(n) == IF n < 0 THEN -n ELSE n
Max(a, b) == IF a > b THEN a ELSE b
Min(a, b) == IF a < b THEN a ELSE b

Ids(rects) == {rects[i].id : i \in 1..Len(rects)}

\* a * s for a scale factor s = <<num, den>>
Times(a, s) == (a * s[1]) \div s[2]
Exact(a, s) == (a * s[1]) % s[2] = 0

NoTimer == [pending |-> FALSE, elapsed |-> 0, rectangles |-> <<>>, annotationId |-> Null]
NoNode == [active |-> FALSE, x |-> 0, y |-> 0, scaleX |-> <<1, 1>>, scaleY |-> <<1, 1>>]

----------------------------------------------------------------------------
(* The auto-save effect, lines 38-45.  It runs after every render in which *)
(* rectangles or autoSave changed: the cleanup clears the timer of the     *)
(* previous run, and a new timer is set whose callback is the              *)
(* saveAnnotations of that render, closed over its rectangles and          *)
(* annotationId.                                                           *)

AutoSaveEffect(rects, enabled, annId) ==
    IF enabled /\ Len(rects) > 0
    THEN [pending |-> TRUE, elapsed |-> 0, rectangles |-> rects, annotationId |-> annId]
    ELSE NoTimer

\* the list changed and the effect did not run: the timer keeps the closure it has
SetRectanglesNoEffect(rects) ==
    /\ rectangles' = rects
    /\ timer' = timer
    /\ quiet' = 0
    /\ fired' = 0
    /\ cancelled' = FALSE

\* the list changed without the pending timer being cleared and set again
SetRectanglesKeepTimer(rects) ==
    /\ rectangles' = rects
    /\ timer' = IF timer.pending /\ autoSave /\ Len(rects) > 0
                THEN [timer EXCEPT !.rectangles = rects]
                ELSE AutoSaveEffect(rects, autoSave, annotationId)
    /\ quiet' = 0
    /\ fired' = 0
    /\ cancelled' = FALSE

\* setRectangles(rects): the state changes, the component renders again and the effect runs
SetRectangles(rects) ==
    /\ rectangles' = rects
    /\ timer' = AutoSaveEffect(rects, autoSave, annotationId)
    /\ quiet' = 0
    /\ fired' = 0
    /\ cancelled' = timer.pending

\* a render in which neither rectangles nor autoSave changed: the effect does not run
KeepRectangles == UNCHANGED <<rectangles, timer, quiet, fired, cancelled>>

\* no file is being read and none is downloaded
KeepFiles == UNCHANGED <<reader, download>>

----------------------------------------------------------------------------
Init ==
    /\ rectangles = <<>>
    /\ selectedId = Null
    /\ isDrawing = FALSE
    /\ startPoint = <<>>
    /\ currentRect = <<>>
    /\ loading = TRUE
    /\ error = ""
    /\ annotationId = Null
    /\ autoSave = FALSE
    /\ timer = NoTimer
    /\ inflight = <<>>
    /\ serverNext = 3
    /\ now = 1
    /\ node = NoNode
    /\ reader = <<>>
    /\ download = <<>>
    /\ endPoint = <<>>
    /\ quiet = 0
    /\ fired = 0
    /\ cancelled = FALSE

\* the toolbar and the stage rendered while the load is pending
UsableWhileLoading == ~node.active

\* the toolbar and the stage are rendered only once loading is over (lines 218-220);
\* while a resize handle is held nothing else is operated
Usable == ~loading /\ ~node.active

\* the pointer is free to click, drag or resize a shape: it is not drawing
PointerFree == Usable /\ startPoint = <<>> /\ currentRect = <<>>

----------------------------------------------------------------------------
(* fetchAnnotations, lines 47-65 *)

\* the oldest saved set taken
FirstAnnotation(list) == list[1]

\* response.data[response.data.length - 1]
LatestAnnotation(list) == list[Len(list)]

FetchOk(list) ==
    /\ loading
    /\ IF Len(list) > 0
       THEN /\ rectangles' = LatestAnnotation(list).rectangles
            /\ annotationId' = LatestAnnotation(list)._id
            /\ timer' = AutoSaveEffect(rectangles', autoSave, annotationId')
            /\ quiet' = 0
            /\ fired' = 0
            /\ cancelled' = timer.pending
       ELSE /\ KeepRectangles
            /\ UNCHANGED annotationId
    /\ loading' = FALSE
    /\ UNCHANGED <<selectedId, isDrawing, startPoint, currentRect, error, autoSave,
                   inflight, serverNext, now, node, endPoint>>
    /\ KeepFiles

FetchFail ==
    /\ loading
    /\ error' = "Failed to load annotations"
    /\ loading' = FALSE
    /\ KeepRectangles
    /\ UNCHANGED <<selectedId, isDrawing, startPoint, currentRect, annotationId, autoSave,
                   inflight, serverNext, now, node, endPoint>>
    /\ KeepFiles

----------------------------------------------------------------------------
(* Drawing, lines 88-132 and 232-237 *)

ToggleDrawing ==
    /\ Usable
    /\ isDrawing' = ~isDrawing
    /\ KeepRectangles
    /\ UNCHANGED <<selectedId, startPoint, currentRect, loading, error, annotationId,
                   autoSave, inflight, serverNext, now, node, endPoint>>
    /\ KeepFiles

\* target: "stage" when the pointer went down on the background, "shape" otherwise
handleMouseDown(pos, target, color) ==
    /\ Usable
    /\ now < MaxNow + 1
    /\ Len(rectangles) < MaxRects
    /\ IF ~isDrawing \/ target # "stage"
       THEN UNCHANGED <<startPoint, currentRect, now, endPoint>>
       ELSE /\ startPoint' = <<pos>>
            /\ currentRect' = <<Rect(now, pos.x, pos.y, 0, 0, color)>>
            /\ now' = now + 1
            /\ endPoint' = <<>>
    /\ KeepRectangles
    /\ UNCHANGED <<selectedId, isDrawing, loading, error, annotationId, autoSave,
                   inflight, serverNext, node>>
    /\ KeepFiles

MovedRect(rect, start, pos) ==
    [rect EXCEPT !.width = pos.x - start.x, !.height = pos.y - start.y]

handleMouseMove(pos) ==
    /\ Usable
    /\ IF ~isDrawing \/ startPoint = <<>> \/ currentRect = <<>>
       THEN UNCHANGED <<currentRect, endPoint>>
       ELSE /\ currentRect' = <<MovedRect(currentRect[1], startPoint[1], pos)>>
            /\ endPoint' = <<pos>>
    /\ KeepRectangles
    /\ UNCHANGED <<selectedId, isDrawing, startPoint, loading, error, annotationId,
                   autoSave, inflight, serverNext, now, node>>
    /\ KeepFiles

\* the threshold taken as inclusive
CommitsInclusive(rect) == Abs(rect.width) >= Threshold /\ Abs(rect.height) >= Threshold

Commits(rect) == Abs(rect.width) > Threshold /\ Abs(rect.height) > Threshold

\* the magnitudes taken, the corner not moved
FinalRectNoShift(rect) ==
    [rect EXCEPT !.width = Abs(rect.width), !.height = Abs(rect.height)]

FinalRect(rect) ==
    [rect EXCEPT !.x = IF rect.width > 0 THEN rect.x ELSE rect.x + rect.width,
                 !.y = IF rect.height > 0 THEN rect.y ELSE rect.y + rect.height,
                 !.width = Abs(rect.width),
                 !.height = Abs(rect.height)]

handleMouseUp ==
    /\ Usable
    /\ IF currentRect # <<>> /\ Commits(currentRect[1])
       THEN SetRectangles(Append(rectangles, FinalRect(currentRect[1])))
       ELSE KeepRectangles
    /\ startPoint' = <<>>
    /\ currentRect' = <<>>
    /\ UNCHANGED <<selectedId, isDrawing, loading, error, annotationId, autoSave,
                   inflight, serverNext, now, node, endPoint>>
    /\ KeepFiles

----------------------------------------------------------------------------
(* Selection, drag and resize, lines 134-169, 316-319 and 336-344 *)

SelectRect(id) ==
    /\ PointerFree
    /\ id \in Ids(rectangles)
    /\ selectedId' = id
    /\ KeepRectangles
    /\ UNCHANGED <<isDrawing, startPoint, currentRect, loading, error, annotationId,
                   autoSave, inflight, serverNext, now, node, endPoint>>
    /\ KeepFiles

\* every rectangle moved, whatever its id
DraggedRectAll(rect, id, pos) == [rect EXCEPT !.x = pos.x, !.y = pos.y]

DraggedRect(rect, id, pos) ==
    IF rect.id = id THEN [rect EXCEPT !.x = pos.x, !.y = pos.y] ELSE rect

\* the handler maps over the list whatever id it is given
handleDragEnd(id, pos) ==
    /\ PointerFree
    /\ SetRectangles([i \in 1..Len(rectangles) |-> DraggedRect(rectangles[i], id, pos)])
    /\ UNCHANGED <<selectedId, isDrawing, startPoint, currentRect, loading, error,
                   annotationId, autoSave, inflight, serverNext, now, node, endPoint>>
    /\ KeepFiles

Box(px, py, w, h) == [x |-> px, y |-> py, width |-> w, height |-> h]

boundBoxFunc(oldBox, newBox) ==
    IF newBox.width < MinBox \/ newBox.height < MinBox THEN oldBox ELSE newBox

\* the bounding box of a rectangle drawn with the attributes of its node
NodeBox(rect, n) == Box(n.x, n.y, Times(rect.width, n.scaleX), Times(rect.height, n.scaleY))

\* the rectangle a selection refers to (the first with that id, as findOne and find do)
Selected(rects, id) == rects[CHOOSE i \in 1..Len(rects) :
                               /\ rects[i].id = id
                               /\ \A j \in 1..(i - 1) : rects[j].id # id]

\* The transformer moves a resize handle of the selected node: it asks
\* boundBoxFunc whether the attempted box may replace the present one and gives
\* the node the position and scale of the box it gets back.
TransformerResize(sx, sy, pos) ==
    /\ ~loading
    /\ node.active \/ PointerFree
    /\ selectedId \in Ids(rectangles)
    /\ LET rect == Selected(rectangles, selectedId)
           cur == IF node.active THEN node
                  ELSE [node EXCEPT !.active = TRUE, !.x = rect.x, !.y = rect.y]
           try == [active |-> TRUE, x |-> pos.x, y |-> pos.y, scaleX |-> sx, scaleY |-> sy]
           oldBox == NodeBox(rect, cur)
           newBox == NodeBox(rect, try)
       IN  /\ Exact(rect.width, sx) /\ Exact(rect.height, sy)
           /\ Abs(newBox.width) < MaxSize + 1 /\ Abs(newBox.height) < MaxSize + 1
           /\ node' = IF boundBoxFunc(oldBox, newBox) = newBox THEN try ELSE cur
    /\ KeepRectangles
    /\ UNCHANGED <<selectedId, isDrawing, startPoint, currentRect, loading, error,
                   annotationId, autoSave, inflight, serverNext, now, endPoint>>
    /\ KeepFiles

\* the scaled size stored without the floor
TransformedRectNoFloor(rect, id, n) ==
    IF rect.id = id
    THEN [rect EXCEPT !.x = n.x, !.y = n.y,
                      !.width = Times(rect.width, n.scaleX),
                      !.height = Times(rect.height, n.scaleY)]
    ELSE rect

TransformedRect(rect, id, n) ==
    IF rect.id = id
    THEN [rect EXCEPT !.x = n.x, !.y = n.y,
                      !.width = Max(MinSize, Times(rect.width, n.scaleX)),
                      !.height = Max(MinSize, Times(rect.height, n.scaleY))]
    ELSE rect

\* node.scaleX(1); node.scaleY(1), and the gesture is over
ResetNode(n) == [n EXCEPT !.active = FALSE, !.x = 0, !.y = 0,
                            !.scaleX = <<1, 1>>, !.scaleY = <<1, 1>>]

handleTransformEnd ==
    /\ ~loading
    /\ node.active
    /\ SetRectangles([i \in 1..Len(rectangles) |->
                         TransformedRect(rectangles[i], selectedId, node)])
    /\ node' = ResetNode(node)
    /\ UNCHANGED <<selectedId, isDrawing, startPoint, currentRect, loading, error,
                   annotationId, autoSave, inflight, serverNext, now, endPoint>>
    /\ KeepFiles

----------------------------------------------------------------------------
(* Delete, clear and import, lines 171-200 *)

\* only the first rectangle looked at
WithoutHead(rects, id) ==
    IF rects # <<>> /\ Head(rects).id = id THEN Tail(rects) ELSE rects

Without(rects, id) == SelectSeq(rects, LAMBDA r : r.id # id)

deleteSelected ==
    /\ Usable
    /\ IF selectedId # Null
       THEN /\ SetRectangles(Without(rectangles, selectedId))
            /\ selectedId' = Null
       ELSE /\ KeepRectangles
            /\ UNCHANGED selectedId
    /\ UNCHANGED <<isDrawing, startPoint, currentRect, loading, error, annotationId,
                   autoSave, inflight, serverNext, now, node, endPoint>>
    /\ KeepFiles

\* the list emptied, the selection kept
clearAllKeepSelection ==
    /\ Usable
    /\ Len(rectangles) > 0
    /\ SetRectangles(<<>>)
    /\ UNCHANGED <<selectedId, isDrawing, startPoint, currentRect, loading, error,
                   annotationId, autoSave, inflight, serverNext, now, node, endPoint>>
    /\ KeepFiles

clearAll ==
    /\ Usable
    /\ Len(rectangles) > 0
    /\ SetRectangles(<<>>)
    /\ selectedId' = Null
    /\ UNCHANGED <<isDrawing, startPoint, currentRect, loading, error, annotationId,
                   autoSave, inflight, serverNext, now, node, endPoint>>
    /\ KeepFiles

\* any parsed object taken for a list
IsArrayOrObject(doc) == doc.kind \in {"array", "object"}

\* Array.isArray(data)
IsArray(doc) == doc.kind = "array"

\* reader.onload, lines 188-198, for a file whose text JSON.parse turns into doc
onload(doc) ==
    /\ IF doc.kind = "invalid"
       THEN /\ error' = "Invalid file format"
            /\ KeepRectangles
            /\ UNCHANGED selectedId
       ELSE IF IsArray(doc)
       THEN /\ SetRectangles(doc.value)
            /\ selectedId' = Null
            /\ UNCHANGED error
       ELSE /\ KeepRectangles
            /\ UNCHANGED <<selectedId, error>>
    /\ UNCHANGED <<isDrawing, startPoint, currentRect, loading, annotationId,
                   autoSave, inflight, serverNext, now, node, endPoint, download>>

\* a file is chosen and its text arrives before any other event
loadFromFile(doc) ==
    /\ Usable
    /\ reader = <<>>
    /\ onload(doc)
    /\ UNCHANGED reader

\* a file is chosen: reader.readAsText(file), line 199; its text arrives later
readAsText(doc) ==
    /\ Usable
    /\ reader = <<>>
    /\ reader' = <<doc>>
    /\ KeepRectangles
    /\ UNCHANGED <<selectedId, isDrawing, startPoint, currentRect, loading, error,
                   annotationId, autoSave, inflight, serverNext, now, node, endPoint,
                   download>>

\* the text has arrived: the reader calls its onload
readerOnload ==
    /\ ~loading
    /\ reader # <<>>
    /\ onload(reader[1])
    /\ reader' = <<>>

----------------------------------------------------------------------------
(* Export, lines 202-210, and the JSON text it writes.  A text is the       *)
(* sequence of the texts of the array's objects; the text of an object is   *)
(* the sequence of its members <<key, text of the value>> in the order      *)
(* JSON.stringify writes them; the text of a number is the sequence of its  *)
(* decimal characters, the text of a string is the string between quotes.   *)

Keys == <<"id", "x", "y", "width", "height", "color">>
DigitChars == <<"0", "1", "2", "3", "4", "5", "6", "7", "8", "9">>

RECURSIVE Digits(_)
Digits(n) ==
    IF n < 10 THEN <<DigitChars[n + 1]>>
    ELSE Append(Digits(n \div 10), DigitChars[(n % 10) + 1])

NumberText(n) == IF n < 0 THEN <<"-">> \o Digits(-n) ELSE Digits(n)

ValueText(key, v) == IF key = "color" THEN <<"\"", v, "\"">> ELSE NumberText(v)

\* the members written for the keys the object has, color left out
ObjectTextNoColor(r) ==
    LET present == SelectSeq(Keys, LAMBDA k : k \in DOMAIN r /\ k # "color")
    IN  [i \in 1..Len(present) |-> <<present[i], ValueText(present[i], r[present[i]])>>]

\* the members written for the keys the object has
ObjectText(r) ==
    LET present == SelectSeq(Keys, LAMBDA k : k \in DOMAIN r)
    IN  [i \in 1..Len(present) |-> <<present[i], ValueText(present[i], r[present[i]])>>]

\* JSON.stringify(rectangles, null, 2)
stringify(rects) == [i \in 1..Len(rects) |-> ObjectText(rects[i])]

DigitValue(c) == CHOOSE d \in 0..9 : DigitChars[d + 1] = c

RECURSIVE ParseDigits(_)
ParseDigits(chars) ==
    IF Len(chars) = 0 THEN 0
    ELSE ParseDigits(SubSeq(chars, 1, Len(chars) - 1)) * 10 + DigitValue(chars[Len(chars)])

ParseNumber(chars) ==
    IF chars[1] = "-" THEN -ParseDigits(Tail(chars)) ELSE ParseDigits(chars)

ParseValue(text) == IF text[1] = "\"" THEN text[2] ELSE ParseNumber(text)

ParseObject(members) ==
    [k \in {members[i][1] : i \in 1..Len(members)} |->
        ParseValue(members[CHOOSE i \in 1..Len(members) : members[i][1] = k][2])]

\* JSON.parse(event.target.result) for a text that export wrote
parse(text) == [kind |-> "array", value |-> [i \in 1..Len(text) |-> ParseObject(text[i])]]

\* the file the browser keeps after an export, as an import reads it
Downloaded == {parse(download[i]) : i \in 1..Len(download)}

\* link.click(): the browser downloads the text; nothing of the component changes
exportToFile ==
    /\ Usable
    /\ download' = <<stringify(rectangles)>>
    /\ KeepRectangles
    /\ UNCHANGED <<selectedId, isDrawing, startPoint, currentRect, loading, error,
                   annotationId, autoSave, inflight, serverNext, now, node, reader,
                   endPoint>>

----------------------------------------------------------------------------
(* Saving, lines 38-45, 67-86, 247-249 and 266-273 *)

\* the request saveAnnotations issues when it is closed over rects and annId; reply is
\* the _id of response.data, known for an update and not yet given for a create
Request(rects, annId) ==
    IF annId # Null
    THEN [method |-> "PUT", id |-> annId, rectangles |-> rects, reply |-> annId]
    ELSE [method |-> "POST", id |-> Null, rectangles |-> rects, reply |-> Null]

\* the Save button calls the saveAnnotations of the present render
SaveClick(limit) ==
    /\ Usable
    /\ Len(rectangles) > 0
    /\ Len(inflight) < limit
    /\ inflight' = Append(inflight, Request(rectangles, annotationId))
    /\ KeepRectangles
    /\ UNCHANGED <<selectedId, isDrawing, startPoint, currentRect, loading, error,
                   annotationId, autoSave, serverNext, now, node, endPoint>>
    /\ KeepFiles

\* the checkbox cleared without the effect's cleanup: a pending timer is left alone
ToggleAutoSaveKeepTimer ==
    /\ Usable
    /\ autoSave' = ~autoSave
    /\ timer' = IF autoSave' THEN AutoSaveEffect(rectangles, autoSave', annotationId)
                ELSE timer
    /\ fired' = 0
    /\ cancelled' = FALSE
    /\ UNCHANGED <<rectangles, selectedId, isDrawing, startPoint, currentRect, loading,
                   error, annotationId, inflight, serverNext, now, node, endPoint, quiet>>
    /\ KeepFiles

\* the checkbox: setAutoSave(e.target.checked); autoSave changed, so the effect runs
ToggleAutoSave ==
    /\ Usable
    /\ autoSave' = ~autoSave
    /\ timer' = AutoSaveEffect(rectangles, autoSave', annotationId)
    /\ fired' = 0
    /\ cancelled' = timer.pending
    /\ UNCHANGED <<rectangles, selectedId, isDrawing, startPoint, currentRect, loading,
                   error, annotationId, inflight, serverNext, now, node, endPoint, quiet>>
    /\ KeepFiles

\* TickMs milliseconds pass
Advance(t) == Min(t + TickMs, AutoSaveDelay)

Tick ==
    /\ ~loading
    /\ quiet < AutoSaveDelay \/ (timer.pending /\ timer.elapsed < AutoSaveDelay)
    /\ quiet' = Advance(quiet)
    /\ timer' = IF timer.pending THEN [timer EXCEPT !.elapsed = Advance(timer.elapsed)]
                ELSE timer
    /\ UNCHANGED <<rectangles, selectedId, isDrawing, startPoint, currentRect, loading,
                   error, annotationId, autoSave, inflight, serverNext, now, node,
                   endPoint, fired, cancelled>>
    /\ KeepFiles

\* a timer that has fired is spent
AfterFire(t) == NoTimer

\* the timer's callback runs once its delay is over: the saveAnnotations it closed over
TimerFire(limit) ==
    /\ timer.pending
    /\ timer.elapsed >= AutoSaveDelay
    /\ Len(inflight) < limit
    /\ inflight' = Append(inflight, Request(timer.rectangles, timer.annotationId))
    /\ timer' = AfterFire(timer)
    /\ fired' = Min(fired + 1, 2)
    /\ UNCHANGED <<rectangles, selectedId, isDrawing, startPoint, currentRect, loading,
                   error, annotationId, autoSave, serverNext, now, node, endPoint, quiet,
                   cancelled>>
    /\ KeepFiles

Remove(seq, i) == SubSeq(seq, 1, i - 1) \o SubSeq(seq, i + 1, Len(seq))

\* the service creates the set of request i and gives it the next _id
ServiceCreates(i) ==
    /\ i \in 1..Len(inflight)
    /\ inflight[i].method = "POST"
    /\ inflight[i].reply = Null
    /\ inflight' = [inflight EXCEPT ![i].reply = serverNext]
    /\ serverNext' = serverNext + 1
    /\ KeepRectangles
    /\ KeepFiles
    /\ UNCHANGED <<selectedId, isDrawing, startPoint, currentRect, loading, error,
                   annotationId, autoSave, now, node, endPoint>>

\* the id kept once one is known
AdoptedFirst(present, returned) == IF present # Null THEN present ELSE returned

\* setAnnotationId(response.data._id)
Adopted(present, returned) == returned

\* the answer to request i arrives: the awaited call returns.  A create the service
\* has not handled yet is handled and answered in this step.
SaveResponseOk(i) ==
    /\ i \in 1..Len(inflight)
    /\ IF inflight[i].method = "POST"
       THEN IF inflight[i].reply # Null
            THEN /\ annotationId' = Adopted(annotationId, inflight[i].reply)
                 /\ UNCHANGED serverNext
            ELSE /\ annotationId' = Adopted(annotationId, serverNext)
                 /\ serverNext' = serverNext + 1
       ELSE UNCHANGED <<annotationId, serverNext>>
    /\ error' = ""
    /\ inflight' = Remove(inflight, i)
    /\ KeepRectangles
    /\ UNCHANGED <<selectedId, isDrawing, startPoint, currentRect, loading, autoSave,
                   now, node, endPoint>>
    /\ KeepFiles

\* the service refuses request i, or the request does not reach it: the awaited call throws
SaveResponseFail(i) ==
    /\ i \in 1..Len(inflight)
    /\ inflight[i].method = "POST" => inflight[i].reply = Null
    /\ error' = "Failed to save annotations"
    /\ inflight' = Remove(inflight, i)
    /\ KeepRectangles
    /\ UNCHANGED <<selectedId, isDrawing, startPoint, currentRect, loading, annotationId,
                   autoSave, serverNext, now, node, endPoint>>
    /\ KeepFiles

----------------------------------------------------------------------------
(* The editor: loading, drawing, selecting, dragging, resizing, deleting,  *)
(* clearing and importing.                                                 *)

Next ==
    \/ \E list \in ServerLists : FetchOk(list)
    \/ FetchFail
    \/ ToggleDrawing
    \/ \E pos \in Points, target \in {"stage", "shape"}, color \in Colors :
          handleMouseDown(pos, target, color)
    \/ \E pos \in Points : handleMouseMove(pos)
    \/ handleMouseUp
    \/ \E id \in Ids(rectangles) : SelectRect(id)
    \/ \E id \in Ids(rectangles) \cup {StaleId}, pos \in NodePositions :
          handleDragEnd(id, pos)
    \/ \E s \in ScalePairs, pos \in NodePositions : TransformerResize(s[1], s[2], pos)
    \/ handleTransformEnd
    \/ deleteSelected
    \/ clearAll
    \/ \E doc \in Documents : loadFromFile(doc)

Spec == Init /\ [][Next]_vars

(* The editor with saving: the Save button, the auto-save checkbox, the    *)
(* clock, the auto-save timer and the answers of the service, and the      *)
(* edits that change the rectangle list.                                   *)

NextSync ==
    \/ \E list \in SyncLists : FetchOk(list)
    \/ FetchFail
    \/ ToggleDrawing
    \/ \E color \in Colors : handleMouseDown(SyncDown, "stage", color)
    \/ handleMouseMove(SyncMove)
    \/ handleMouseUp
    \/ clearAll
    \/ loadFromFile(SyncDocument)
    \/ SaveClick(MaxInflight)
    \/ ToggleAutoSave
    \/ Tick
    \/ TimerFire(MaxInflight)
    \/ \E i \in 1..MaxInflight : SaveResponseOk(i)
    \/ \E i \in 1..MaxInflight : SaveResponseFail(i)

SpecSync == Init /\ [][NextSync]_vars

(* The editor with its files: export, and the import of a file whose text  *)
(* arrives after it was chosen, with the edits that need no pointer        *)
(* gesture.                                                                *)

NextFile ==
    \/ \E list \in ServerLists : FetchOk(list)
    \/ FetchFail
    \/ \E id \in Ids(rectangles) : SelectRect(id)
    \/ \E id \in Ids(rectangles), pos \in NodePositions : handleDragEnd(id, pos)
    \/ deleteSelected
    \/ clearAll
    \/ exportToFile
    \/ \E doc \in FileDocuments \cup Downloaded : readAsText(doc)
    \/ readerOnload

SpecFile == Init /\ [][NextFile]_vars

(* The editor with saves that race: up to MaxRacing requests are in flight, *)
(* the service handles them in any order and their answers arrive in any    *)
(* order.  The list changes by import and clear only.                       *)

NextRace ==
    \/ \E list \in SyncLists : FetchOk(list)
    \/ FetchFail
    \/ clearAll
    \/ loadFromFile(SyncDocument)
    \/ SaveClick(MaxRacing)
    \/ ToggleAutoSave
    \/ Tick
    \/ TimerFire(MaxRacing)
    \/ \E i \in 1..MaxRacing : ServiceCreates(i)
    \/ \E i \in 1..MaxRacing : SaveResponseOk(i)
    \/ \E i \in 1..MaxRacing : SaveResponseFail(i)

SpecRace == Init /\ [][NextRace]_vars

----------------------------------------------------------------------------
(* Properties of drawing *)

Last(seq) == seq[Len(seq)]

\* a step in which a draw gesture ends: only handleMouseUp clears the provisional rectangle
GestureEnds == currentRect # <<>> /\ currentRect' = <<>>

\* C1: the pointer-up that ends a draw gesture appends exactly one rectangle,
\* the provisional one, at the end of the sequence iff the provisional width and
\* height both exceed 5 in magnitude; otherwise the sequence is unchanged.
C1_CommitIffAboveThreshold ==
    [][GestureEnds =>
         IF Abs(currentRect[1].width) > 5 /\ Abs(currentRect[1].height) > 5
         THEN /\ Len(rectangles') = Len(rectangles) + 1
              /\ SubSeq(rectangles', 1, Len(rectangles)) = rectangles
              /\ Last(rectangles').id = currentRect[1].id
              /\ Last(rectangles').color = currentRect[1].color
              /\ ~Commits(Rect(1, 0, 0, 3, 3, "#a1b2c3"))
              /\ ~Commits(Rect(1, 0, 0, 5, 5, "#a1b2c3"))
              /\ Commits(Rect(1, 0, 0, 6, 6, "#a1b2c3"))
         ELSE rectangles' = rectangles]_vars

\* a 6x6 gesture was appended after the rectangle the store already held
C1_Witness ==
    /\ Len(rectangles) = 2
    /\ rectangles[1].id = 101
    /\ rectangles[2].id \in 1..MaxNow
    /\ rectangles[2].width = 6 /\ rectangles[2].height = 6

\* C2: a committed gesture from start point s to end point e leaves the rectangle
\* with x = min(s.x, e.x), y = min(s.y, e.y), width = |e.x - s.x| and
\* height = |e.y - s.y|, both non-negative; from (100,100) to (40,60) that is
\* x = 40, y = 60, width = 60, height = 40.
C2_Normalized ==
    [][(GestureEnds /\ Len(rectangles') > Len(rectangles)) =>
         LET s == startPoint[1]
             e == endPoint[1]
             r == Last(rectangles')
         IN  /\ r.x = Min(s.x, e.x)
             /\ r.y = Min(s.y, e.y)
             /\ r.width = Abs(e.x - s.x)
             /\ r.height = Abs(e.y - s.y)
             /\ r.width >= 0 /\ r.height >= 0
             /\ FinalRect(MovedRect(Rect(1, 100, 100, 0, 0, "#a1b2c3"),
                                    Pt(100, 100), Pt(40, 60)))
                  = Rect(1, 40, 60, 60, 40, "#a1b2c3")]_vars

\* the gesture from (14,0) to (6,6), drawn leftwards, is in the store
C2_Witness ==
    \E i \in 1..Len(rectangles) :
        /\ rectangles[i].id \in 1..MaxNow
        /\ rectangles[i].x = 6 /\ rectangles[i].y = 0
        /\ rectangles[i].width = 8 /\ rectangles[i].height = 6

\* C3: every rectangle in the store has non-negative width and height, and
\* neither is below 5.
C3_StoreSizes ==
    \A i \in 1..Len(rectangles) :
        /\ rectangles[i].width >= 0 /\ rectangles[i].height >= 0
        /\ rectangles[i].width >= 5 /\ rectangles[i].height >= 5

----------------------------------------------------------------------------
(* Properties of resizing *)

\* a step in which a resize gesture ends: only handleTransformEnd releases the node
ResizeEnds == node.active /\ ~node'.active

\* the bounding box of the selected rectangle before a step of its resize handle
PresentBox ==
    LET rect == Selected(rectangles, selectedId)
    IN  IF node.active THEN NodeBox(rect, node)
        ELSE Box(rect.x, rect.y, rect.width, rect.height)

\* C4: resize end gives the rectangle with the selected id width
\* max(5, width * scaleX), height max(5, height * scaleY) and the node's x and y,
\* leaves the others alone and resets the node's scale to 1; no scale factor
\* gives a width or height below 5; and a step of the resize handle whose
\* attempted box has width < 5 or height < 5 leaves the previous box.
C4_ResizeFloor ==
    /\ [](\A i \in 1..Len(rectangles), sc \in Scales, pos \in NodePositions :
            LET n == [active |-> TRUE, x |-> pos.x, y |-> pos.y,
                      scaleX |-> sc, scaleY |-> sc]
                new == TransformedRect(rectangles[i], rectangles[i].id, n)
            IN  new.width >= 5 /\ new.height >= 5)
    /\ [][/\ ResizeEnds =>
               /\ Len(rectangles') = Len(rectangles)
               /\ \A i \in 1..Len(rectangles) :
                     LET old == rectangles[i]
                         new == rectangles'[i]
                         w == (old.width * node.scaleX[1]) \div node.scaleX[2]
                         h == (old.height * node.scaleY[1]) \div node.scaleY[2]
                     IN  IF old.id = selectedId
                         THEN /\ new.width = (IF w > 5 THEN w ELSE 5)
                              /\ new.height = (IF h > 5 THEN h ELSE 5)
                              /\ new.x = node.x /\ new.y = node.y
                              /\ new.id = old.id /\ new.color = old.color
                              /\ new.width >= 5 /\ new.height >= 5
                         ELSE new = old
               /\ node'.scaleX = <<1, 1>> /\ node'.scaleY = <<1, 1>>
          /\ (node'.active /\ rectangles' = rectangles) =>
               \A s \in ScalePairs, pos \in NodePositions :
                  TransformerResize(s[1], s[2], pos) =>
                    LET rect == Selected(rectangles, selectedId)
                        w == (rect.width * s[1][1]) \div s[1][2]
                        h == (rect.height * s[2][1]) \div s[2][2]
                    IN  (w < 5 \/ h < 5) => NodeBox(rect, node') = PresentBox]_vars

\* a rectangle drawn 6x6 was resized to twice its width and moved
C4_Witness ==
    \E i \in 1..Len(rectangles) :
        /\ rectangles[i].id \in 1..MaxNow
        /\ rectangles[i].width = 12 /\ rectangles[i].height = 6
        /\ rectangles[i].x = 3 /\ rectangles[i].y = 4
        /\ ~node.active

----------------------------------------------------------------------------
(* Properties of the selection, of delete and of import *)

\* the positions of the rectangles whose id is not id, and the k-th of them
Others(rects, id) == {i \in 1..Len(rects) : rects[i].id # id}
Kth(set, k) == CHOOSE i \in set : Cardinality({j \in set : j < i}) = k - 1

\* C5: deleteSelected with selectedId = i leaves no selection and no rectangle
\* with id i and keeps every other rectangle, unchanged and in order; with no
\* selection it changes nothing.
C5_DeleteSelected ==
    [][deleteSelected =>
         IF selectedId # Null
         THEN /\ selectedId' = Null
              /\ \A k \in 1..Len(rectangles') : rectangles'[k].id # selectedId
              /\ Len(rectangles') = Cardinality(Others(rectangles, selectedId))
              /\ \A k \in 1..Len(rectangles') :
                    rectangles'[k] = rectangles[Kth(Others(rectangles, selectedId), k)]
         ELSE UNCHANGED <<rectangles, selectedId>>]_vars

\* the first of two imported rectangles was selected and deleted: the second is left
C5_Witness ==
    /\ selectedId = Null
    /\ Len(rectangles) >= 1
    /\ rectangles[1].id = 102

\* C6: selectedId is absent or the id of a rectangle in the store.
C6_SelectionNeverDangles ==
    selectedId = Null \/ \E i \in 1..Len(rectangles) : rectangles[i].id = selectedId

\* after a delete of the selected rectangle, the one that is left is selected
C6_Witness ==
    /\ selectedId = 102
    /\ Len(rectangles) >= 1
    /\ rectangles[1].id = 102

\* C10: an import whose document does not parse, or parses to something that is
\* no array, leaves the rectangle sequence, the selection and the annotation id
\* as they were.
C10_RejectedImportFrame ==
    [][\A doc \in Documents :
         (doc.kind # "array" /\ loadFromFile(doc)) =>
            /\ rectangles' = rectangles
            /\ selectedId' = selectedId
            /\ annotationId' = annotationId]_vars

\* an unparsable file was refused while the store held a selected rectangle
C10_Witness ==
    /\ error = "Invalid file format"
    /\ Len(rectangles) = 2
    /\ selectedId # Null
    /\ annotationId # Null

----------------------------------------------------------------------------
(* Properties of saving *)

\* a step in which a save request is issued, and the request
Issues == Len(inflight') = Len(inflight) + 1
Issued == Last(inflight')

\* a step in which the auto-save timer fires
Fires == fired' > fired

\* C7: once the active set has an id, every save request issued is an update
\* against that id, and no create is issued.
C7_UpdateOnceIdAdopted ==
    [][(Issues /\ annotationId # Null) =>
          (Issued.method = "PUT" /\ Issued.id = annotationId)]_vars

\* C8: with auto-save on and a non-empty list, a save is scheduled after every
\* change of the list; the timer fires no earlier than 2 seconds after the last
\* change, and at most once for it.
C8_TrailingDebounce ==
    [][/\ Fires => quiet >= 2000
       /\ Fires => (fired = 0 /\ ~timer'.pending)
       /\ Fires => Issues
       /\ (autoSave' /\ Len(rectangles') > 0 /\ fired' = 0) => timer'.pending
       /\ (rectangles' # rectangles /\ timer'.pending) => timer'.elapsed = 0]_vars

\* a change of the list inside the window restarted the timer, which then fired once
C8_Witness ==
    /\ autoSave
    /\ cancelled
    /\ fired = 1
    /\ ~timer.pending
    /\ Len(rectangles) = 2
    /\ quiet = AutoSaveDelay

\* C9: while auto-save is off no timer is pending and no timer fires; switching
\* it off clears the pending timer.
C9_DisableCancels ==
    /\ [](~autoSave => ~timer.pending)
    /\ [][/\ Fires => autoSave
          /\ (autoSave /\ ~autoSave') => ~timer'.pending]_vars

\* auto-save was switched off while its timer was pending, and two seconds have passed
C9_Witness ==
    /\ ~autoSave
    /\ cancelled
    /\ fired = 0
    /\ Len(rectangles) > 0
    /\ quiet = AutoSaveDelay
    /\ inflight = <<>>

----------------------------------------------------------------------------
(* Properties of import and export *)

\* a step in which the reader hands over the text of a chosen file, and what the
\* text parses to
Reads == reader # <<>> /\ reader' = <<>>
Read == reader[1]

\* C11: every import that is rejected reports an error: when the file does not
\* parse, and also when it parses to something that is not an array, the error
\* message is set.
C11_RejectedImportReportsError ==
    [][(Reads /\ Read.kind # "array") => error' # ""]_vars

\* a record that has the fields of a rectangle
WellFormed(r) == DOMAIN r = {"id", "x", "y", "width", "height", "color"}

\* C12: the import validates the shape of the records: an array holding an element
\* that is not a well-formed rectangle record is rejected, and the store and the
\* selection stay as they were.
C12_MalformedImportRejected ==
    [][(/\ Reads
        /\ Read.kind = "array"
        /\ \E i \in 1..Len(Read.value) : ~WellFormed(Read.value[i])) =>
           (rectangles' = rectangles /\ selectedId' = selectedId)]_vars

----------------------------------------------------------------------------
(* Properties of loading and of the error message *)

\* C14: the load on mount ends in one of three ways.  A non-empty list gives the
\* editor the rectangles and the id of its last element; an empty list gives an
\* empty set and no id; a failure sets the error message and leaves an empty set
\* and no id.  In all three loading ends.
C14_LoadOutcome ==
    [][/\ \A list \in ServerLists :
            FetchOk(list) =>
               /\ IF Len(list) > 0
                  THEN /\ rectangles' = Last(list).rectangles
                       /\ annotationId' = Last(list)._id
                  ELSE /\ rectangles' = <<>>
                       /\ annotationId' = Null
               /\ error' = ""
               /\ ~loading'
       /\ FetchFail =>
            /\ error' # ""
            /\ rectangles' = <<>>
            /\ annotationId' = Null
            /\ ~loading']_vars

\* the service answered with two saved sets and the editor took the second
C14_Witness ==
    /\ ~loading
    /\ annotationId = 2
    /\ rectangles = <<Regular>>
    /\ error = ""

\* C15: the error message is transient: the next operation of any kind that
\* succeeds (a save, an import, a load) clears it.
C15_ErrorClearedBySuccess ==
    [][(\/ \E i \in 1..Len(inflight) : SaveResponseOk(i)
        \/ loadFromFile(SyncDocument)
        \/ \E list \in SyncLists : FetchOk(list)) => error' = ""]_vars

----------------------------------------------------------------------------
(* Properties of the drawing mode, of drag and of the load *)

\* C16: switching the drawing mode off while a gesture is tracked ends the
\* gesture by the rule of pointer-up (commit above the threshold, discard
\* otherwise): after the switch no start point and no provisional rectangle
\* remain, and no pointer event commits a rectangle while the mode is off.
C16_ToggleOffEndsGesture ==
    [][/\ (isDrawing /\ ~isDrawing') =>
            /\ startPoint' = <<>>
            /\ currentRect' = <<>>
            /\ rectangles' = IF currentRect # <<>> /\ Commits(currentRect[1])
                             THEN Append(rectangles, FinalRect(currentRect[1]))
                             ELSE rectangles
       /\ (~isDrawing /\ GestureEnds) => rectangles' = rectangles]_vars

\* C18: a drag that ends on the rectangle with id i changes only the x and y of
\* that rectangle; its other attributes, every other rectangle, the order and the
\* selection stay as they were.  If no rectangle has id i nothing changes and no
\* error is raised.
C18_DragEndFrame ==
    [][\A id \in Ids(rectangles) \cup {StaleId}, pos \in NodePositions :
         handleDragEnd(id, pos) =>
            /\ Len(rectangles') = Len(rectangles)
            /\ \A k \in 1..Len(rectangles) :
                  IF rectangles[k].id = id
                  THEN rectangles'[k] = [rectangles[k] EXCEPT !.x = pos.x, !.y = pos.y]
                  ELSE rectangles'[k] = rectangles[k]
            /\ id \notin Ids(rectangles) => rectangles' = rectangles
            /\ selectedId' = selectedId
            /\ error' = error]_vars

\* the first of two rectangles was dropped at (3, 4) while the second was selected
C18_Witness ==
    /\ Len(rectangles) = 2
    /\ rectangles[1] = [Regular EXCEPT !.x = 3, !.y = 4]
    /\ rectangles[2] = Small
    /\ selectedId = 102
    /\ ~node.active

\* C20: the load on mount never overwrites an edit.  While loading no edit,
\* selection, import or save is accepted, so the list is empty and the selection
\* absent when the answer is applied, and the answer is applied at most once:
\* the only step taken while loading ends it, and loading never starts again.
C20_LoadBeforeEdits ==
    /\ [](loading => /\ rectangles = <<>>
                     /\ selectedId = Null
                     /\ startPoint = <<>>
                     /\ currentRect = <<>>
                     /\ ~isDrawing
                     /\ ~autoSave
                     /\ inflight = <<>>
                     /\ error = "")
    /\ [][loading' => loading]_vars
    /\ [][loading => ~loading']_vars

\* the saved set was applied, and the user has drawn a second rectangle since
C20_Witness ==
    /\ ~loading
    /\ annotationId = 1
    /\ Len(rectangles) = 2
    /\ rectangles[1] = Regular
    /\ rectangles[2].id \in 1..MaxNow

----------------------------------------------------------------------------
(* Properties of saves in flight together *)

\* the _id the answer to request r carries
Returned(r) == IF r.reply # Null THEN r.reply ELSE serverNext

\* C17: saves are neither serialized nor deduplicated.  A save started while an
\* earlier one is in flight issues its own request and leaves the earlier one in
\* flight; the answers may arrive in either order; the answer to a create that
\* arrives sets the stored id to the id it carries, whatever id is stored, so
\* with two creates in flight the id of the answer that arrives last stays.
C17_LastResponseWins ==
    [][/\ SaveClick(MaxRacing) =>
            /\ inflight' = Append(inflight, Request(rectangles, annotationId))
            /\ annotationId' = annotationId
       /\ \A i \in 1..Len(inflight) :
            (SaveResponseOk(i) /\ inflight[i].method = "POST") =>
               /\ annotationId' = Returned(inflight[i])
               /\ inflight' = Remove(inflight, i)]_vars

\* two creates were in flight together, the service gave them the ids 3 and 4, and
\* the answer carrying 3 arrived after the answer carrying 4
C17_Witness ==
    /\ inflight = <<>>
    /\ serverNext = 5
    /\ annotationId = 3
    /\ error = ""

\* C19: every save request, from the button or from the timer, carries exactly
\* the rectangle sequence the store holds when the request is issued: a pending
\* timer holds the present list, so none fires with a list that was superseded,
\* and no request carries an empty list.
C19_SaveCarriesStore ==
    /\ [](timer.pending => (timer.rectangles = rectangles /\ Len(rectangles) > 0))
    /\ [][Issues => (Issued.rectangles = rectangles /\ Len(Issued.rectangles) > 0)]_vars

\* the list changed while a timer was pending, and the timer set for the changed
\* list has fired: its request, still in flight, carries the list of two
C19_Witness ==
    /\ cancelled
    /\ fired = 1
    /\ inflight # <<>>
    /\ Last(inflight).rectangles = rectangles
    /\ Len(rectangles) = 2
====
